---------------------------- MODULE Spec2Model ----------------------------
(***************************************************************************)
(* Model of the modular-satellite core: the module registry               *)
(* (core/registry.py), the mode orchestrator (core/orchestrator.py), the  *)
(* event bus (core/event_bus.py) and the wiring of main_interactive.py.   *)
(*                                                                         *)
(* A descriptor is a Python dict; it is modelled as a TLA+ function whose  *)
(* domain is the set of keys that are present, so that "key in dict" and   *)
(* dict.get(key, default) keep their meaning.                              *)
(***************************************************************************)
EXTENDS Integers, Sequences, FiniteSets, TLC

VARIABLES
    modules,            \* state.modules: module_id -> descriptor
    tags_present,       \* state.tags_present
    used_power_w,       \* state.used_power_w
    used_thermal_w,     \* state.used_thermal_w
    quarantine,         \* registry.quarantine: module_id -> descriptor
    mode,               \* orch.mode
    kp_index,           \* orch.kp_index
    next_pass_minutes,  \* orch.next_pass_minutes: None or Some(n)
    call,               \* the last call made on the registry / the bus, with its result
    events              \* the handler invocations of the last command, in call order

regVars  == <<modules, tags_present, used_power_w, used_thermal_w, quarantine>>
orchVars == <<mode, kp_index, next_pass_minutes>>
vars     == <<modules, tags_present, used_power_w, used_thermal_w, quarantine,
              mode, kp_index, next_pass_minutes, call, events>>

-----------------------------------------------------------------------------
(* Python helpers *)

\* dict.get(k, default)
Get(d, k, default) == IF k \in DOMAIN d THEN d[k] ELSE default

\* dict[k] = v
Put(d, k, v) == [x \in (DOMAIN d) \cup {k} |-> IF x = k THEN v ELSE d[x]]

\* dict.pop(k)
Pop(d, k) == [x \in (DOMAIN d) \ {k} |-> d[x]]

\* a dict without one of its keys (used to build malformed descriptors)
Without(d, k) == [x \in (DOMAIN d) \ {k} |-> d[x]]

EmptyDict == [x \in {} |-> {}]

\* Optional[int]: None is the empty sequence, a value n is <<n>>
None    == <<>>
Some(n) == <<n>>

\* sorted(list(S)) for a set of strings: the tags the model uses, in
\* lexicographic order
TagOrder == <<"CAM", "COMMS", "COMPUTE", "NAV">>

RECURSIVE SortedFrom(_, _)
SortedFrom(S, i) ==
    IF i > Len(TagOrder) THEN <<>>
    ELSE (IF TagOrder[i] \in S THEN <<TagOrder[i]>> ELSE <<>>) \o SortedFrom(S, i + 1)

Sorted(S) == SortedFrom(S, 1)

-----------------------------------------------------------------------------
(* Satellite limits *)

power_bus_v      == 28
power_budget_w   == 60
thermal_budget_w == 30
data_protocol    == "SpaceWire"

REQUIRED_TOP_KEYS ==
    {"module_id", "name", "vendor", "version", "certified",
     "interfaces", "capabilities", "constraints"}

-----------------------------------------------------------------------------
(* Descriptors *)

\* set(list)
SetOf(seq) == {seq[i] : i \in DOMAIN seq}

\* A well-formed descriptor document.
Descriptor(id, certified, bus_v, protocol, max_w, thermal_w, caps, requires, conflicts) ==
    [module_id    |-> id,
     name         |-> "module",
     vendor       |-> "vendor",
     version      |-> "1.0",
     certified    |-> certified,
     interfaces   |-> [power |-> [bus_v |-> bus_v, max_w |-> max_w],
                       data  |-> [protocol |-> protocol]],
     capabilities |-> caps,
     constraints  |-> [thermal_w |-> thermal_w,
                       requires  |-> requires,
                       conflicts |-> conflicts]]

\* desc["interfaces"]["power"].get("max_w", 0), through int()
MaxW(desc) == Get(desc["interfaces"]["power"], "max_w", 0)

\* desc["constraints"].get("thermal_w", 0), through int()
ThermalW(desc) == Get(desc["constraints"], "thermal_w", 0)

\* Faulty variant: only explicit tag fields count, a compute capability
\* contributes nothing
CapTags_tag_only(desc) ==
    LET caps == Get(desc, "capabilities", <<>>)
    IN  {caps[i]["tag"] : i \in {j \in DOMAIN caps : "tag" \in DOMAIN caps[j]}}

\* The tags one descriptor contributes: the loop over desc.get("capabilities", [])
CapTags(desc) ==
    LET caps == Get(desc, "capabilities", <<>>)
    IN  {"COMPUTE" : i \in {j \in DOMAIN caps : Get(caps[j], "type", "None") = "compute"}}
        \cup {caps[i]["tag"] : i \in {j \in DOMAIN caps : "tag" \in DOMAIN caps[j]}}

-----------------------------------------------------------------------------
(* ModuleRegistry *)

\* Faulty variant: "vendor" is not among the required keys
basic_schema_check_lax(desc) ==
    LET missing == (REQUIRED_TOP_KEYS \ {"vendor"}) \ DOMAIN desc
    IN  IF missing # {}
        THEN <<FALSE, <<"Missing keys", missing>>>>
        ELSE IF "power" \notin DOMAIN desc["interfaces"]
                \/ "data" \notin DOMAIN desc["interfaces"]
             THEN <<FALSE, <<"interfaces must include power and data">>>>
             ELSE <<TRUE, <<"OK">>>>

\* Faulty variant: power and data are looked for among the top-level keys
basic_schema_check_top_level(desc) ==
    LET missing == REQUIRED_TOP_KEYS \ DOMAIN desc
    IN  IF missing # {}
        THEN <<FALSE, <<"Missing keys", missing>>>>
        ELSE IF "power" \notin DOMAIN desc \/ "data" \notin DOMAIN desc
             THEN <<FALSE, <<"interfaces must include power and data">>>>
             ELSE <<TRUE, <<"OK">>>>

\* _basic_schema_check: <<ok, msg>>.  sorted(missing) is the canonical list
\* of the set, so the message carries the set.
basic_schema_check(desc) ==
    LET missing == REQUIRED_TOP_KEYS \ DOMAIN desc
    IN  IF missing # {}
        THEN <<FALSE, <<"Missing keys", missing>>>>
        ELSE IF "power" \notin DOMAIN desc["interfaces"]
                \/ "data" \notin DOMAIN desc["interfaces"]
             THEN <<FALSE, <<"interfaces must include power and data">>>>
             ELSE <<TRUE, <<"OK">>>>

\* The rules of _compatibility_check, each read against the current state.
\* A rule yields the reasons it appends: none, or one.  A reason is the
\* message's fixed text with the values formatted into it.

\* trust/certification gate
certified_reason(desc) ==
    IF ~Get(desc, "certified", FALSE)
    THEN <<<<"Module not certified (zero-trust policy).">>>>
    ELSE <<>>

\* power bus compatibility (a missing bus_v is None, which differs from the bus)
bus_reason(desc) ==
    LET power == desc["interfaces"]["power"]
        bus_v == Get(power, "bus_v", "None")
    IN  IF "bus_v" \notin DOMAIN power \/ bus_v # power_bus_v
        THEN <<<<"Power bus mismatch", power_bus_v, bus_v>>>>
        ELSE <<>>

\* data protocol compatibility
protocol_reason(desc) ==
    LET protocol == Get(desc["interfaces"]["data"], "protocol", "None")
    IN  IF protocol # data_protocol
        THEN <<<<"Data protocol mismatch", data_protocol, protocol>>>>
        ELSE <<>>

\* Faulty variant: the budget test is >= instead of >
power_reason_inclusive(desc) ==
    IF used_power_w + MaxW(desc) >= power_budget_w
    THEN <<<<"Power budget exceeded", used_power_w, MaxW(desc), power_budget_w>>>>
    ELSE <<>>

\* Faulty variant: the budget test leaves out the draw of the new module
power_reason_current_only(desc) ==
    IF used_power_w > power_budget_w
    THEN <<<<"Power budget exceeded", used_power_w, MaxW(desc), power_budget_w>>>>
    ELSE <<>>

\* resource budgets: power
power_reason(desc) ==
    IF used_power_w + MaxW(desc) > power_budget_w
    THEN <<<<"Power budget exceeded", used_power_w, MaxW(desc), power_budget_w>>>>
    ELSE <<>>

\* Faulty variant: the thermal test is an elif of the power test
thermal_reason_elif(desc) ==
    IF used_power_w + MaxW(desc) > power_budget_w
    THEN <<>>
    ELSE IF used_thermal_w + ThermalW(desc) > thermal_budget_w
         THEN <<<<"Thermal budget exceeded", used_thermal_w, ThermalW(desc), thermal_budget_w>>>>
         ELSE <<>>

\* resource budgets: thermal
thermal_reason(desc) ==
    IF used_thermal_w + ThermalW(desc) > thermal_budget_w
    THEN <<<<"Thermal budget exceeded", used_thermal_w, ThermalW(desc), thermal_budget_w>>>>
    ELSE <<>>

\* dependency tags
requires_reason(desc) ==
    LET requires == SetOf(Get(desc["constraints"], "requires", <<>>))
        missing  == Sorted(requires \ tags_present)
    IN  IF ~(requires \subseteq tags_present) /\ missing # <<>>
        THEN <<<<"Missing required capabilities/tags", missing>>>>
        ELSE <<>>

\* conflicts
conflicts_reason(desc) ==
    LET conflicts == SetOf(Get(desc["constraints"], "conflicts", <<>>))
    IN  IF conflicts \cap tags_present # {}
        THEN <<<<"Conflicts with present tags", Sorted(conflicts \cap tags_present)>>>>
        ELSE <<>>

\* Faulty variant: the bus rule is evaluated before the certification gate
compatibility_check_bus_first(desc) ==
    LET reasons == bus_reason(desc) \o certified_reason(desc) \o protocol_reason(desc)
                   \o power_reason(desc) \o thermal_reason(desc)
                   \o requires_reason(desc) \o conflicts_reason(desc)
    IN  <<Len(reasons) = 0, reasons>>

\* _compatibility_check: <<compatible, reasons>>
compatibility_check(desc) ==
    LET reasons == certified_reason(desc) \o bus_reason(desc) \o protocol_reason(desc)
                   \o power_reason(desc) \o thermal_reason(desc)
                   \o requires_reason(desc) \o conflicts_reason(desc)
    IN  <<Len(reasons) = 0, reasons>>

\* Faulty variant: a descriptor rejected by the compatibility check does not
\* replace one already quarantined under its id (setdefault)
discover_and_join_first_write(desc) ==
    LET sc == basic_schema_check(desc)
    IN  IF ~sc[1]
        THEN LET mid == Get(desc, "module_id", "UNKNOWN")
             IN  /\ quarantine' = Put(quarantine, mid, desc)
                 /\ UNCHANGED <<modules, tags_present, used_power_w, used_thermal_w>>
                 /\ call' = [op |-> "discover_and_join", arg |-> desc,
                             compat_checked |-> FALSE,
                             ret |-> <<FALSE, "QUARANTINED_SCHEMA", <<sc[2]>>>>]
        ELSE LET cc  == compatibility_check(desc)
                 mid == desc["module_id"]
             IN  IF ~cc[1]
                 THEN /\ quarantine' = IF mid \in DOMAIN quarantine
                                      THEN quarantine
                                      ELSE Put(quarantine, mid, desc)
                      /\ UNCHANGED <<modules, tags_present, used_power_w, used_thermal_w>>
                      /\ call' = [op |-> "discover_and_join", arg |-> desc,
                                  compat_checked |-> TRUE,
                                  ret |-> <<FALSE, "QUARANTINED_COMPAT", cc[2]>>]
                 ELSE /\ modules' = Put(modules, mid, desc)
                      /\ used_power_w' = used_power_w + MaxW(desc)
                      /\ used_thermal_w' = used_thermal_w + ThermalW(desc)
                      /\ tags_present' = tags_present \cup CapTags(desc)
                      /\ UNCHANGED quarantine
                      /\ call' = [op |-> "discover_and_join", arg |-> desc,
                                  compat_checked |-> TRUE,
                                  ret |-> <<TRUE, "JOINED", <<>>>>]

\* discover_and_join(desc): the registry's variables and the call record.
discover_and_join(desc) ==
    LET sc == basic_schema_check(desc)
    IN  IF ~sc[1]
        THEN LET mid == Get(desc, "module_id", "UNKNOWN")
             IN  /\ quarantine' = Put(quarantine, mid, desc)
                 /\ UNCHANGED <<modules, tags_present, used_power_w, used_thermal_w>>
                 /\ call' = [op |-> "discover_and_join", arg |-> desc,
                             compat_checked |-> FALSE,
                             ret |-> <<FALSE, "QUARANTINED_SCHEMA", <<sc[2]>>>>]
        ELSE LET cc  == compatibility_check(desc)
                 mid == desc["module_id"]
             IN  IF ~cc[1]
                 THEN /\ quarantine' = Put(quarantine, mid, desc)
                      /\ UNCHANGED <<modules, tags_present, used_power_w, used_thermal_w>>
                      /\ call' = [op |-> "discover_and_join", arg |-> desc,
                                  compat_checked |-> TRUE,
                                  ret |-> <<FALSE, "QUARANTINED_COMPAT", cc[2]>>]
                 ELSE /\ modules' = Put(modules, mid, desc)
                      /\ used_power_w' = used_power_w + MaxW(desc)
                      /\ used_thermal_w' = used_thermal_w + ThermalW(desc)
                      /\ tags_present' = tags_present \cup CapTags(desc)
                      /\ UNCHANGED quarantine
                      /\ call' = [op |-> "discover_and_join", arg |-> desc,
                                  compat_checked |-> TRUE,
                                  ret |-> <<TRUE, "JOINED", <<>>>>]

\* The recompute loop of remove_module over state.modules.values():
\* the power total
RECURSIVE SumMaxW(_, _)
SumMaxW(mods, ids) ==
    IF ids = {} THEN 0
    ELSE LET id == CHOOSE x \in ids : TRUE
         IN  MaxW(mods[id]) + SumMaxW(mods, ids \ {id})

\* the thermal total
RECURSIVE SumThermalW(_, _)
SumThermalW(mods, ids) ==
    IF ids = {} THEN 0
    ELSE LET id == CHOOSE x \in ids : TRUE
         IN  ThermalW(mods[id]) + SumThermalW(mods, ids \ {id})

\* the tags
TagsOver(mods) == UNION {CapTags(mods[id]) : id \in DOMAIN mods}

\* Faulty variant: the totals are recomputed even when the id is not joined
remove_module_always_recompute(module_id) ==
    LET rest == Pop(modules, module_id)
    IN  /\ modules' = rest
        /\ used_power_w' = SumMaxW(rest, DOMAIN rest)
        /\ used_thermal_w' = SumThermalW(rest, DOMAIN rest)
        /\ tags_present' = TagsOver(rest)
        /\ UNCHANGED quarantine
        /\ call' = [op |-> "remove_module", arg |-> module_id,
                    ret |-> <<module_id \in DOMAIN modules>>]

\* Faulty variant: the totals are decremented by the removed module's draw
remove_module_decrement(module_id) ==
    IF module_id \notin DOMAIN modules
    THEN /\ UNCHANGED regVars
         /\ call' = [op |-> "remove_module", arg |-> module_id, ret |-> <<FALSE>>]
    ELSE LET rest == Pop(modules, module_id)
         IN  /\ modules' = rest
             /\ used_power_w' = used_power_w - MaxW(modules[module_id])
             /\ used_thermal_w' = used_thermal_w - ThermalW(modules[module_id])
             /\ tags_present' = TagsOver(rest)
             /\ UNCHANGED quarantine
             /\ call' = [op |-> "remove_module", arg |-> module_id, ret |-> <<TRUE>>]

\* remove_module(module_id): the registry's variables and the call record.
remove_module(module_id) ==
    IF module_id \notin DOMAIN modules
    THEN /\ UNCHANGED regVars
         /\ call' = [op |-> "remove_module", arg |-> module_id, ret |-> <<FALSE>>]
    ELSE LET rest == Pop(modules, module_id)
         IN  /\ modules' = rest
             /\ used_power_w' = SumMaxW(rest, DOMAIN rest)
             /\ used_thermal_w' = SumThermalW(rest, DOMAIN rest)
             /\ tags_present' = TagsOver(rest)
             /\ UNCHANGED quarantine
             /\ call' = [op |-> "remove_module", arg |-> module_id, ret |-> <<TRUE>>]

-----------------------------------------------------------------------------
(* The descriptors submitted to the registry *)

ModuleIds == {"A", "B"}

\* The payloads: capabilities, declared draw, dependencies and conflicts.
Cpu   == [caps |-> <<[type |-> "compute"]>>,
          max_w |-> 20, thermal_w |-> 5, requires |-> <<>>, conflicts |-> <<>>]
Comms == [caps |-> <<[type |-> "comms", tag |-> "COMMS"]>>,
          max_w |-> 15, thermal_w |-> 5, requires |-> <<"COMPUTE">>, conflicts |-> <<>>]
Cam   == [caps |-> <<[type |-> "imaging", tag |-> "CAM"], [type |-> "compute"]>>,
          max_w |-> 40, thermal_w |-> 25, requires |-> <<>>, conflicts |-> <<"COMMS">>]
Probe == [caps |-> <<>>,
          max_w |-> 70, thermal_w |-> 35, requires |-> <<"NAV", "COMPUTE">>,
          conflicts |-> <<"COMMS", "CAM">>]

\* A descriptor from its id, its static interface (certification, bus
\* voltage, protocol) and its payload
Build(id, i, p) ==
    Descriptor(id, i.certified, i.bus_v, i.protocol,
               p.max_w, p.thermal_w, p.caps, p.requires, p.conflicts)

GoodInterface == [certified |-> TRUE, bus_v |-> 28, protocol |-> "SpaceWire"]

\* Every combination of interface defects
Interfaces ==
    {[certified |-> c, bus_v |-> b, protocol |-> p] :
        c \in BOOLEAN, b \in {28, 12}, p \in {"SpaceWire", "CAN"}}

\* Schema-valid descriptors: four that can join (two payloads for each id);
\* under id "B", an uncertified 12 V compute module, and every combination
\* of interface defects for the payload that always breaks the budget and
\* dependency rules.
ValidDescriptors ==
    {Build("A", GoodInterface, Cpu), Build("A", GoodInterface, Comms),
     Build("B", GoodInterface, Comms), Build("B", GoodInterface, Cam)}
    \cup {Build("B", [certified |-> FALSE, bus_v |-> 12, protocol |-> "SpaceWire"], Cpu)}
    \cup {Build("B", i, Probe) : i \in Interfaces}

\* Malformed descriptors: a missing top-level key (module_id itself, or
\* another one), and interfaces without its power object, without its data
\* object, or without both.
Malformed ==
    LET d == Build("B", GoodInterface, Cpu)
    IN  {Without(d, "module_id"),
         Without(d, "vendor"),
         [d EXCEPT !["interfaces"] = Without(d["interfaces"], "data")],
         [d EXCEPT !["interfaces"] = Without(d["interfaces"], "power")],
         [d EXCEPT !["interfaces"] = EmptyDict]}

Descriptors == ValidDescriptors \cup Malformed

-----------------------------------------------------------------------------
(* EventBus and Orchestrator *)

\* Faulty variant: the orchestrator subscribes to MODULE_JOINED before the
\* presentation handler does
Subscribers_orch_first(topic) ==
    CASE topic = "LOG"                -> <<"print_log">>
      [] topic = "MODE_CHANGED"       -> <<"print_mode">>
      [] topic = "MODULE_JOINED"      -> <<"on_module_joined", "print_joined">>
      [] topic = "MODULE_QUARANTINED" -> <<"print_quarantine">>
      [] topic = "MODULE_REMOVED"     -> <<"print_removed">>
      [] topic = "SPACE_WEATHER"      -> <<"on_space_weather">>
      [] topic = "NEXT_PASS"          -> <<"on_next_pass">>
      [] topic = "ANOMALY"            -> <<"on_anomaly">>
      [] OTHER                        -> <<>>

\* bus._subs after the subscriptions of main: topic -> handlers, in
\* subscription order.  The lambdas are named after what they print.
Subscribers(topic) ==
    CASE topic = "LOG"                -> <<"print_log">>
      [] topic = "MODE_CHANGED"       -> <<"print_mode">>
      [] topic = "MODULE_JOINED"      -> <<"print_joined", "on_module_joined">>
      [] topic = "MODULE_QUARANTINED" -> <<"print_quarantine">>
      [] topic = "MODULE_REMOVED"     -> <<"print_removed">>
      [] topic = "SPACE_WEATHER"      -> <<"on_space_weather">>
      [] topic = "NEXT_PASS"          -> <<"on_next_pass">>
      [] topic = "ANOMALY"            -> <<"on_anomaly">>
      [] OTHER                        -> <<>>

\* _has_capability(cap_type) over state.modules
has_capability(mods, cap_type) ==
    \E id \in DOMAIN mods :
        LET caps == Get(mods[id], "capabilities", <<>>)
        IN  \E i \in DOMAIN caps : Get(caps[i], "type", "None") = cap_type

\* Faulty variant: the pass rule is tested before the space-weather rule
derive_mode_pass_first(o, mods) ==
    IF /\ o.next_pass_minutes # None
       /\ o.next_pass_minutes[1] <= 10
       /\ has_capability(mods, "comms")
    THEN "DOWNLINK"
    ELSE IF o.kp_index >= 6
         THEN "SAFE"
         ELSE IF has_capability(mods, "imaging")
              THEN "IMAGING"
              ELSE "IDLE"

\* Faulty variant: once in SAFE the rules cannot leave it
derive_mode_sticky_safe(o, mods) ==
    IF o.kp_index >= 6 \/ o.mode = "SAFE"
    THEN "SAFE"
    ELSE IF /\ o.next_pass_minutes # None
            /\ o.next_pass_minutes[1] <= 10
            /\ has_capability(mods, "comms")
         THEN "DOWNLINK"
         ELSE IF has_capability(mods, "imaging")
              THEN "IMAGING"
              ELSE "IDLE"

\* The rule chain of _recompose: the new mode for orchestrator fields o
derive_mode(o, mods) ==
    IF o.kp_index >= 6
    THEN "SAFE"
    ELSE IF /\ o.next_pass_minutes # None
            /\ o.next_pass_minutes[1] <= 10
            /\ has_capability(mods, "comms")
         THEN "DOWNLINK"
         ELSE IF has_capability(mods, "imaging")
              THEN "IMAGING"
              ELSE "IDLE"

\* Faulty variant: MODE_CHANGED is published on every recompose
mode_differs_always(new_mode, old_mode) == TRUE

\* The test of _recompose that decides whether MODE_CHANGED is published
mode_differs(new_mode, old_mode) == new_mode # old_mode

\* One entry of the trace: a handler (or _recompose) being entered at a call
\* depth, with the event it was given and the mode the orchestrator holds
\* at that moment.
Entry(topic, handler, depth, event, o) ==
    [topic |-> topic, handler |-> handler, depth |-> depth, event |-> event,
     mode |-> o.mode]

\* publish(topic, event) runs its handlers from the i-th on; a handler's
\* own publishes run inside it, one level deeper.  The result is the
\* orchestrator's fields afterwards and the trace.
RECURSIVE publish_from(_, _, _, _, _, _)

publish(topic, event, depth, o, mods) == publish_from(topic, 1, event, depth, o, mods)

\* Orchestrator._recompose(reason)
recompose(reason, depth, o, mods) ==
    LET new_mode == derive_mode(o, mods)
        entered  == <<Entry("", "_recompose", depth, [reason |-> reason], o)>>
    IN  IF mode_differs(new_mode, o.mode)
        THEN LET o1 == [o EXCEPT !.mode = new_mode]
                 r  == publish("MODE_CHANGED", [mode |-> o1.mode, why |-> reason],
                               depth + 1, o1, mods)
             IN  [o |-> r.o, log |-> entered \o r.log]
        ELSE [o |-> o, log |-> entered]

\* Orchestrator.on_module_joined(e)
on_module_joined(e, depth, o, mods) ==
    recompose(<<"module joined", e.module_id>>, depth, o, mods)

\* Faulty variant: the rules are evaluated before kp_index is stored
on_space_weather_stale(e, depth, o, mods) ==
    LET r == recompose(<<"space weather kp", e.kp>>, depth, o, mods)
    IN  [o |-> [r.o EXCEPT !.kp_index = e.kp], log |-> r.log]

\* Orchestrator.on_space_weather(e): float(e["kp"]) keeps the value
on_space_weather(e, depth, o, mods) ==
    LET o1 == [o EXCEPT !.kp_index = e.kp]
    IN  recompose(<<"space weather kp", o1.kp_index>>, depth, o1, mods)

\* Orchestrator.on_next_pass(e): int(e["minutes"]) keeps an integer
on_next_pass(e, depth, o, mods) ==
    LET o1 == [o EXCEPT !.next_pass_minutes = Some(e.minutes)]
    IN  recompose(<<"next pass in", o1.next_pass_minutes[1]>>, depth, o1, mods)

\* Faulty variant: MODE_CHANGED is published before mode is assigned
on_anomaly_late(e, depth, o, mods) ==
    LET signature == Get(e, "signature", "unknown")
        r1 == publish("LOG", [msg |-> <<"Anomaly detected", signature>>],
                      depth + 1, o, mods)
        r2 == publish("MODE_CHANGED", [mode |-> "SAFE", why |-> <<"anomaly">>],
                      depth + 1, r1.o, mods)
    IN  [o |-> [r2.o EXCEPT !.mode = "SAFE"], log |-> r1.log \o r2.log]

\* Orchestrator.on_anomaly(e)
on_anomaly(e, depth, o, mods) ==
    LET signature == Get(e, "signature", "unknown")
        r1 == publish("LOG", [msg |-> <<"Anomaly detected", signature>>],
                      depth + 1, o, mods)
        o2 == [r1.o EXCEPT !.mode = "SAFE"]
        r2 == publish("MODE_CHANGED", [mode |-> o2.mode, why |-> <<"anomaly">>],
                      depth + 1, o2, mods)
    IN  [o |-> r2.o, log |-> r1.log \o r2.log]

\* Faulty variant: the MODE_CHANGED handler publishes a LOG event
Invoke_mode_logs(handler, e, depth, o, mods) ==
    CASE handler = "on_module_joined" -> on_module_joined(e, depth, o, mods)
      [] handler = "on_space_weather" -> on_space_weather(e, depth, o, mods)
      [] handler = "on_next_pass"     -> on_next_pass(e, depth, o, mods)
      [] handler = "on_anomaly"       -> on_anomaly(e, depth, o, mods)
      [] handler = "print_mode"       ->
            publish("LOG", [msg |-> <<"Mode", e.mode>>], depth + 1, o, mods)
      [] OTHER                        -> [o |-> o, log |-> <<>>]

\* handler(event) for one subscriber
Invoke(handler, e, depth, o, mods) ==
    CASE handler = "on_module_joined" -> on_module_joined(e, depth, o, mods)
      [] handler = "on_space_weather" -> on_space_weather(e, depth, o, mods)
      [] handler = "on_next_pass"     -> on_next_pass(e, depth, o, mods)
      [] handler = "on_anomaly"       -> on_anomaly(e, depth, o, mods)
      [] OTHER                        -> [o |-> o, log |-> <<>>]

\* EventBus.publish: for handler in self._subs.get(topic, []): handler(event)
publish_from(topic, i, event, depth, o, mods) ==
    LET handlers == Subscribers(topic)
    IN  IF i > Len(handlers)
        THEN [o |-> o, log |-> <<>>]
        ELSE LET entered == <<Entry(topic, handlers[i], depth, event, o)>>
                 r1 == Invoke(handlers[i], event, depth, o, mods)
                 r2 == publish_from(topic, i + 1, event, depth, r1.o, mods)
             IN  [o |-> r2.o, log |-> entered \o r1.log \o r2.log]

-----------------------------------------------------------------------------
(* Initial state: SatelliteState(), ModuleRegistry(state),
   Orchestrator(bus, state), the subscriptions, and the boot message *)

\* The fields of a new Orchestrator
NewOrch == [mode |-> "IDLE", kp_index |-> 1, next_pass_minutes |-> None]

\* bus.publish("LOG", {"msg": "Booting ..."}) on the empty satellite
BootLog == publish("LOG", [msg |-> <<"Booting">>], 1, NewOrch, EmptyDict)

Init ==
    /\ modules = EmptyDict
    /\ tags_present = {}
    /\ used_power_w = 0
    /\ used_thermal_w = 0
    /\ quarantine = EmptyDict
    /\ mode = BootLog.o.mode
    /\ kp_index = BootLog.o.kp_index
    /\ next_pass_minutes = BootLog.o.next_pass_minutes
    /\ call = [op |-> "boot"]
    /\ events = BootLog.log

-----------------------------------------------------------------------------
(* The registry driven directly through its two methods *)

DiscoverAndJoin ==
    \E desc \in Descriptors :
        /\ discover_and_join(desc)
        /\ UNCHANGED <<orchVars, events>>

RemoveModule ==
    \E module_id \in ModuleIds \cup {"UNKNOWN"} :
        /\ remove_module(module_id)
        /\ UNCHANGED <<orchVars, events>>

NextRegistry == DiscoverAndJoin \/ RemoveModule

SpecRegistry == Init /\ [][NextRegistry]_vars

-----------------------------------------------------------------------------
(* The commands of main_interactive *)

\* The descriptor files at hand: a compute module, a comms module that
\* depends on it, a camera, and an uncertified 12 V module.
ShellDescriptors ==
    {Build("A", GoodInterface, Cpu),
     Build("B", GoodInterface, Comms),
     Build("B", GoodInterface, Cam),
     Build("B", [certified |-> FALSE, bus_v |-> 12, protocol |-> "SpaceWire"], Cpu)}

\* The kp values typed at the shell: both sides of the SAFE threshold
MaxKp == 7
KpValues == 5..MaxKp

\* The minutes typed at the shell: 5 and 7, and both sides of the pass
\* threshold
MaxMinutes == 11
MinutesValues == {5, 7} \cup (10..MaxMinutes)

Signatures == {"spike_power_draw"}

Orch == [mode |-> mode, kp_index |-> kp_index, next_pass_minutes |-> next_pass_minutes]

SetOrch(o) ==
    /\ mode' = o.mode
    /\ kp_index' = o.kp_index
    /\ next_pass_minutes' = o.next_pass_minutes

\* connect_module(bus, reg, desc)
connect_module(desc) ==
    /\ discover_and_join(desc)
    /\ LET ret == call'.ret
           r   == IF ret[1]
                  THEN publish("MODULE_JOINED", [module_id |-> desc["module_id"]],
                               1, Orch, modules')
                  ELSE publish("MODULE_QUARANTINED",
                               [module_id |-> Get(desc, "module_id", "UNKNOWN"),
                                status |-> ret[2], reasons |-> ret[3]],
                               1, Orch, modules')
       IN  SetOrch(r.o) /\ events' = r.log

\* connect_file / connect_json / save_json <descriptor>
ConnectModule == \E desc \in ShellDescriptors : connect_module(desc)

\* disconnect <module_id>
Disconnect ==
    \E module_id \in ModuleIds :
        /\ remove_module(module_id)
        /\ IF call'.ret[1]
           THEN LET r1 == publish("MODULE_REMOVED", [module_id |-> module_id],
                                  1, Orch, modules')
                    r2 == recompose(<<"module removed", module_id>>, 1, r1.o, modules')
                IN  SetOrch(r2.o) /\ events' = r1.log \o r2.log
           ELSE UNCHANGED orchVars /\ events' = <<>>

\* kp <value>: bus.publish("SPACE_WEATHER", {"kp": float(value)})
SpaceWeather ==
    \E kp \in KpValues :
        LET e == [kp |-> kp]
            r == publish("SPACE_WEATHER", e, 1, Orch, modules)
        IN  /\ SetOrch(r.o)
            /\ events' = r.log
            /\ call' = [op |-> "publish", arg |-> <<"SPACE_WEATHER", e>>]
            /\ UNCHANGED regVars

\* pass <minutes>: bus.publish("NEXT_PASS", {"minutes": int(minutes)})
NextPass ==
    \E minutes \in MinutesValues :
        LET e == [minutes |-> minutes]
            r == publish("NEXT_PASS", e, 1, Orch, modules)
        IN  /\ SetOrch(r.o)
            /\ events' = r.log
            /\ call' = [op |-> "publish", arg |-> <<"NEXT_PASS", e>>]
            /\ UNCHANGED regVars

\* Faulty variant: the anomaly handler sheds every joined module
Anomaly_sheds_modules ==
    \E sig \in Signatures :
        LET e == [signature |-> sig]
            r == publish("ANOMALY", e, 1, Orch, modules)
        IN  /\ SetOrch(r.o)
            /\ events' = r.log
            /\ call' = [op |-> "publish", arg |-> <<"ANOMALY", e>>]
            /\ modules' = EmptyDict
            /\ used_power_w' = 0
            /\ used_thermal_w' = 0
            /\ tags_present' = {}
            /\ UNCHANGED quarantine

\* anomaly <signature>: bus.publish("ANOMALY", {"signature": signature})
Anomaly ==
    \E sig \in Signatures :
        LET e == [signature |-> sig]
            r == publish("ANOMALY", e, 1, Orch, modules)
        IN  /\ SetOrch(r.o)
            /\ events' = r.log
            /\ call' = [op |-> "publish", arg |-> <<"ANOMALY", e>>]
            /\ UNCHANGED regVars

Next == ConnectModule \/ Disconnect \/ SpaceWeather \/ NextPass \/ Anomaly

Spec == Init /\ [][Next]_vars

-----------------------------------------------------------------------------
(* Properties of the registry, checked under SpecRegistry *)

\* A descriptor with every required top-level key and both interface objects
WellFormed(d) ==
    /\ REQUIRED_TOP_KEYS \subseteq DOMAIN d
    /\ {"power", "data"} \subseteq DOMAIN d["interfaces"]

\* Phase-B rule r (1..7) is broken by descriptor d in the current state
RuleBroken(r, d) ==
    CASE r = 1 -> d["certified"] = FALSE
      [] r = 2 -> d["interfaces"]["power"]["bus_v"] # power_bus_v
      [] r = 3 -> d["interfaces"]["data"]["protocol"] # data_protocol
      [] r = 4 -> used_power_w + d["interfaces"]["power"]["max_w"] > power_budget_w
      [] r = 5 -> used_thermal_w + d["constraints"]["thermal_w"] > thermal_budget_w
      [] r = 6 -> ~(SetOf(d["constraints"]["requires"]) \subseteq tags_present)
      [] r = 7 -> SetOf(d["constraints"]["conflicts"]) \cap tags_present # {}

Violated(d) == {r \in 1..7 : RuleBroken(r, d)}

\* The rule a reason reports
RuleOf(reason) ==
    CASE reason[1] = "Module not certified (zero-trust policy)." -> 1
      [] reason[1] = "Power bus mismatch"                        -> 2
      [] reason[1] = "Data protocol mismatch"                    -> 3
      [] reason[1] = "Power budget exceeded"                     -> 4
      [] reason[1] = "Thermal budget exceeded"                   -> 5
      [] reason[1] = "Missing required capabilities/tags"        -> 6
      [] reason[1] = "Conflicts with present tags"               -> 7

\* The step is a call of discover_and_join
JoinCalled == call'.op = "discover_and_join"

\* C1 (budget invariant): used_power_w is the sum of max_w and used_thermal_w
\* the sum of thermal_w over the descriptors in state.modules, after every
\* discover_and_join and remove_module.
C1_BudgetInvariant ==
    /\ used_power_w = SumMaxW(modules, DOMAIN modules)
    /\ used_thermal_w = SumThermalW(modules, DOMAIN modules)

\* C2 (tag invariant): tags_present is exactly the union of the tags the
\* descriptors in state.modules contribute.
C2_TagInvariant == tags_present = TagsOver(modules)

\* C3: no module_id is a key of both state.modules and registry.quarantine.
C3_JoinedNotQuarantined == (DOMAIN modules) \cap (DOMAIN quarantine) = {}

\* C4 (full-reason reporting): a well-formed descriptor that breaks N >= 1 of
\* the seven rules is rejected QUARANTINED_COMPAT with exactly N reasons, one
\* per broken rule, in rule order.
C4_FullReasons ==
    [][(JoinCalled /\ WellFormed(call'.arg) /\ Violated(call'.arg) # {}) =>
        LET ret     == call'.ret
            reasons == ret[3]
        IN  /\ ret[1] = FALSE
            /\ ret[2] = "QUARANTINED_COMPAT"
            /\ Len(reasons) = Cardinality(Violated(call'.arg))
            /\ \A i \in DOMAIN reasons : RuleOf(reasons[i]) \in Violated(call'.arg)
            /\ \A i, j \in DOMAIN reasons :
                   i < j => RuleOf(reasons[i]) < RuleOf(reasons[j])]_vars

\* C4 witness: a rejection that reports all seven rules
C4_Witness ==
    /\ call.op = "discover_and_join"
    /\ call.ret[2] = "QUARANTINED_COMPAT"
    /\ Len(call.ret[3]) = 7

\* The rejection scenario's descriptor: 12 V against the 28 V bus, not
\* certified, and no other rule broken in the current state
RejectionScenario(d) ==
    /\ WellFormed(d)
    /\ d["interfaces"]["power"]["bus_v"] = 12
    /\ d["certified"] = FALSE
    /\ Violated(d) = {1, 2}

\* C5 as stated: the scenario's two reasons are (bus mismatch, not certified),
\* in that order.
C5_AsStated ==
    [][(JoinCalled /\ RejectionScenario(call'.arg)) =>
        /\ call'.ret[2] = "QUARANTINED_COMPAT"
        /\ Len(call'.ret[3]) = 2
        /\ RuleOf(call'.ret[3][1]) = 2
        /\ RuleOf(call'.ret[3][2]) = 1]_vars

\* C5 (rejection scenario), amended: the scenario's descriptor is rejected
\* QUARANTINED_COMPAT with exactly two reasons, not certified first and bus
\* mismatch (28 V against 12 V) second.
C5_RejectionScenario ==
    [][(JoinCalled /\ RejectionScenario(call'.arg)) =>
        call'.ret = <<FALSE, "QUARANTINED_COMPAT",
                      << <<"Module not certified (zero-trust policy).">>,
                         <<"Power bus mismatch", 28, 12>> >> >>]_vars

\* C5 witness: the scenario's descriptor has just been rejected for two reasons
C5_Witness ==
    /\ call.op = "discover_and_join"
    /\ WellFormed(call.arg)
    /\ call.arg["interfaces"]["power"]["bus_v"] = 12
    /\ call.arg["certified"] = FALSE
    /\ Len(call.ret[3]) = 2

\* C6 (admission monotonicity): a descriptor that fails the schema check is
\* never compatibility-checked, leaves modules, budgets and tags unchanged,
\* is stored in quarantine under its module_id or "UNKNOWN", and the result
\* is (False, QUARANTINED_SCHEMA, [one message]).
C6_SchemaFailure ==
    [][(JoinCalled /\ ~WellFormed(call'.arg)) =>
        LET d   == call'.arg
            key == IF "module_id" \in DOMAIN d THEN d["module_id"] ELSE "UNKNOWN"
        IN  /\ ~call'.compat_checked
            /\ UNCHANGED <<modules, used_power_w, used_thermal_w, tags_present>>
            /\ call'.ret[1] = FALSE
            /\ call'.ret[2] = "QUARANTINED_SCHEMA"
            /\ Len(call'.ret[3]) = 1
            /\ DOMAIN quarantine' = (DOMAIN quarantine) \cup {key}
            /\ quarantine'[key] = d
            /\ \A k \in (DOMAIN quarantine) \ {key} : quarantine'[k] = quarantine[k]]_vars

\* C6 witness: a document without module_id has just been rejected on a
\* satellite that holds a module
C6_Witness ==
    /\ call.op = "discover_and_join"
    /\ call.ret[2] = "QUARANTINED_SCHEMA"
    /\ "module_id" \notin DOMAIN call.arg
    /\ "UNKNOWN" \in DOMAIN quarantine
    /\ used_power_w > 0

\* C7 (admission decision): a well-formed descriptor is JOINED exactly when
\* it breaks none of the seven rules, the budget rules being strict on the
\* pre-join totals; on acceptance it is inserted in state.modules and the
\* totals grow by its max_w and thermal_w.
C7_AdmissionDecision ==
    [][(JoinCalled /\ WellFormed(call'.arg)) =>
        LET d == call'.arg
        IN  /\ (call'.ret = <<TRUE, "JOINED", <<>>>>) <=> (Violated(d) = {})
            /\ call'.ret[1] <=> (Violated(d) = {})
            /\ Violated(d) = {} =>
                  /\ modules' = Put(modules, d["module_id"], d)
                  /\ used_power_w' = used_power_w + d["interfaces"]["power"]["max_w"]
                  /\ used_thermal_w' = used_thermal_w + d["constraints"]["thermal_w"]]_vars

\* C7 witness: a module has just been admitted with the power total reaching
\* the budget exactly
C7_Witness ==
    /\ call.op = "discover_and_join"
    /\ call.ret[1]
    /\ used_power_w = power_budget_w

-----------------------------------------------------------------------------
(* Properties of the orchestrator, checked under Spec *)

\* _recompose ran during the last command
RecomposeRan == \E i \in DOMAIN events : events[i].handler = "_recompose"

\* MODE_CHANGED was published during the last command
ModeChangedPublished == \E i \in DOMAIN events : events[i].topic = "MODE_CHANGED"

\* Some joined module declares a capability of the given type
JoinedCapability(cap_type) ==
    \E id \in DOMAIN modules :
        \E i \in DOMAIN modules[id]["capabilities"] :
            modules[id]["capabilities"][i]["type"] = cap_type

\* C8 (mode priority): whenever _recompose has run with kp_index >= 6, the
\* mode is SAFE, whatever next_pass_minutes and the joined modules are.
C8_ModePriority == (RecomposeRan /\ kp_index >= 6) => mode = "SAFE"

\* C8 witness: kp 7, a comms module joined, pass in 5 minutes, recomposed
C8_Witness ==
    /\ RecomposeRan
    /\ kp_index = 7
    /\ next_pass_minutes = Some(5)
    /\ JoinedCapability("comms")
    /\ mode = "SAFE"

\* The target of the first matching rule over the current inputs
FirstMatchingRule ==
    IF kp_index >= 6
    THEN "SAFE"
    ELSE IF next_pass_minutes # None /\ next_pass_minutes[1] <= 10
            /\ JoinedCapability("comms")
         THEN "DOWNLINK"
         ELSE IF JoinedCapability("imaging") THEN "IMAGING" ELSE "IDLE"

\* C9 (mode derivation): right after a handler that calls _recompose, mode is
\* the target of the first matching rule over the current inputs, and
\* SPACE_WEATHER / NEXT_PASS have stored their value before the rules ran.
C9_ModeDerivation ==
    /\ RecomposeRan => mode = FirstMatchingRule
    /\ (call.op = "publish" /\ call.arg[1] = "SPACE_WEATHER") =>
           kp_index = call.arg[2].kp
    /\ (call.op = "publish" /\ call.arg[1] = "NEXT_PASS") =>
           next_pass_minutes = Some(call.arg[2].minutes)

\* C9 witness: NEXT_PASS has just moved the orchestrator to DOWNLINK
C9_Witness ==
    /\ call.op = "publish"
    /\ call.arg[1] = "NEXT_PASS"
    /\ RecomposeRan
    /\ mode = "DOWNLINK"

\* C10 (idempotent recompose): _recompose publishes MODE_CHANGED exactly when
\* the derived mode differs from the mode held before; a second consecutive
\* _recompose with unchanged kp_index, next_pass_minutes and joined modules
\* publishes nothing and leaves mode unchanged.
C10_IdempotentRecompose ==
    [][RecomposeRan' =>
        /\ ModeChangedPublished' <=> (mode' # mode)
        /\ (/\ RecomposeRan
            /\ kp_index' = kp_index
            /\ next_pass_minutes' = next_pass_minutes
            /\ modules' = modules) =>
               (~ModeChangedPublished' /\ mode' = mode)]_vars

\* C10 witness: a recompose has just kept DOWNLINK without publishing
C10_Witness ==
    /\ RecomposeRan
    /\ ~ModeChangedPublished
    /\ mode = "DOWNLINK"

-----------------------------------------------------------------------------
(* Anomalies *)

\* The positions of the trace at which a handler of the topic was entered
EntriesOf(log, topic) == {i \in 1..Len(log) : log[i].topic = topic}

AnomalyPublished == call.op = "publish" /\ call.arg[1] = "ANOMALY"

\* C11: handling ANOMALY from any orchestrator state, SAFE included, ends
\* with mode = SAFE, publishes exactly one LOG event and exactly one
\* MODE_CHANGED {mode: SAFE, why: "anomaly"} event, evaluates no rule (no
\* _recompose runs), leaves kp_index and next_pass_minutes alone, and every
\* MODE_CHANGED subscriber sees mode = SAFE when it is called.
C11_AnomalyOverride ==
    [][AnomalyPublished' =>
         /\ mode' = "SAFE"
         /\ kp_index' = kp_index
         /\ next_pass_minutes' = next_pass_minutes
         /\ ~RecomposeRan'
         /\ Cardinality(EntriesOf(events', "LOG")) = Len(Subscribers("LOG"))
         /\ Cardinality(EntriesOf(events', "MODE_CHANGED"))
              = Len(Subscribers("MODE_CHANGED"))
         /\ \A i \in EntriesOf(events', "MODE_CHANGED") :
              /\ events'[i].event = [mode |-> "SAFE", why |-> <<"anomaly">>]
              /\ events'[i].mode = "SAFE"
         /\ \A i \in EntriesOf(events', "LOG"), j \in EntriesOf(events', "MODE_CHANGED") :
              i < j]_vars

\* An anomaly handled while the mode was already SAFE although kp_index is
\* below the threshold: LOG and MODE_CHANGED are still published
C11_Witness ==
    /\ AnomalyPublished
    /\ mode = "SAFE"
    /\ \E i \in EntriesOf(events, "LOG") : events[i].mode = "SAFE"
    /\ \E i \in EntriesOf(events, "MODE_CHANGED") : events[i].mode = "SAFE"
    /\ kp_index < 6

\* C12: the anomaly is not latched.  From a state that an ANOMALY left in
\* SAFE with kp_index < 6, the next command that runs _recompose with
\* kp_index still below 6 (an accepted join, SPACE_WEATHER with kp < 6,
\* NEXT_PASS, or a removal) sets the mode the rules derive, which is not
\* SAFE, and publishes MODE_CHANGED.
C12_AnomalyNotLatched ==
    [][(/\ mode = "SAFE"
        /\ kp_index < 6
        /\ RecomposeRan'
        /\ kp_index' < 6)
       => /\ mode' = FirstMatchingRule'
          /\ mode' # "SAFE"
          /\ ModeChangedPublished']_vars

\* NEXT_PASS arrived while the orchestrator was in SAFE with kp_index < 6
\* (only an anomaly gets it there), and the mode left SAFE
C12_Witness ==
    /\ call.op = "publish" /\ call.arg[1] = "NEXT_PASS"
    /\ \E i \in DOMAIN events :
         events[i].handler = "_recompose" /\ events[i].mode = "SAFE"
    /\ kp_index < 6
    /\ mode # "SAFE"

-----------------------------------------------------------------------------
(* Removal *)

RemoveCalled == call'.op = "remove_module"

\* C13: remove_module on an id that is not a key of state.modules returns
\* False and leaves modules, used_power_w, used_thermal_w, tags_present and
\* quarantine as they were.
C13_RemoveAbsent ==
    [][(RemoveCalled /\ call'.arg \notin DOMAIN modules)
       => /\ call'.ret = <<FALSE>>
          /\ modules' = modules
          /\ used_power_w' = used_power_w
          /\ used_thermal_w' = used_thermal_w
          /\ tags_present' = tags_present
          /\ quarantine' = quarantine]_vars

\* A removal refused for an id that is only quarantined, while another
\* module is joined
C13_Witness ==
    /\ call.op = "remove_module"
    /\ call.ret = <<FALSE>>
    /\ call.arg \in DOMAIN quarantine
    /\ call.arg \notin DOMAIN modules
    /\ modules # EmptyDict

\* C14: remove_module on a joined id returns True, removes exactly that id
\* from state.modules, and sets used_power_w, used_thermal_w and
\* tags_present to the values recomputed from the remaining descriptors,
\* whatever the three held before the call.
C14_RemoveJoined ==
    [][(RemoveCalled /\ call'.arg \in DOMAIN modules)
       => /\ call'.ret = <<TRUE>>
          /\ DOMAIN modules' = DOMAIN modules \ {call'.arg}
          /\ \A id \in DOMAIN modules' : modules'[id] = modules[id]
          /\ used_power_w' = SumMaxW(modules', DOMAIN modules')
          /\ used_thermal_w' = SumThermalW(modules', DOMAIN modules')
          /\ tags_present' = TagsOver(modules')]_vars

\* A removal that succeeded and left another module joined
C14_Witness ==
    /\ call.op = "remove_module"
    /\ call.ret = <<TRUE>>
    /\ call.arg \notin DOMAIN modules
    /\ modules # EmptyDict
    /\ used_power_w = SumMaxW(modules, DOMAIN modules)
    /\ tags_present = TagsOver(modules)

-----------------------------------------------------------------------------
(* The scenario: join A, join B, NEXT_PASS 7, SPACE_WEATHER 7, remove B *)

ModuleA == Build("A", GoodInterface, Cpu)
ModuleB == Build("B", GoodInterface, Comms)

\* The registry and orchestrator hold exactly these values
Holds(mods, power, thermal, tags, m, kp, minutes) ==
    /\ modules = mods
    /\ used_power_w = power
    /\ used_thermal_w = thermal
    /\ tags_present = tags
    /\ quarantine = EmptyDict
    /\ mode = m
    /\ kp_index = kp
    /\ next_pass_minutes = minutes

OnlyA == Put(EmptyDict, "A", ModuleA)
AandB == Put(OnlyA, "B", ModuleB)

Scenario0 == Holds(EmptyDict, 0, 0, {}, "IDLE", 1, None)
Scenario1 == Holds(OnlyA, 20, 5, {"COMPUTE"}, "IDLE", 1, None)
Scenario2 == Holds(AandB, 35, 10, {"COMPUTE", "COMMS"}, "IDLE", 1, None)
Scenario3 == Holds(AandB, 35, 10, {"COMPUTE", "COMMS"}, "DOWNLINK", 1, Some(7))
Scenario4 == Holds(AandB, 35, 10, {"COMPUTE", "COMMS"}, "SAFE", 7, Some(7))
Scenario5 == Holds(OnlyA, 20, 5, {"COMPUTE"}, "SAFE", 7, Some(7))

Joins(desc) == call'.op = "discover_and_join" /\ call'.arg = desc

Publishes(topic, event) == call'.op = "publish" /\ call'.arg = <<topic, event>>

\* C15: from the initial state with limits {28 V, 60 W, 30 W, SpaceWire},
\* joining A gives JOINED, 20 W and {COMPUTE}; joining B gives JOINED,
\* 35 W and {COMPUTE, COMMS}; NEXT_PASS{minutes: 7} makes the mode
\* DOWNLINK; SPACE_WEATHER{kp: 7} makes it SAFE; removing B gives 20 W and
\* {COMPUTE}, and the _recompose that follows keeps SAFE and publishes no
\* MODE_CHANGED.
C15_Scenario ==
    [][/\ (Scenario0 /\ Joins(ModuleA))
          => call'.ret = <<TRUE, "JOINED", <<>>>> /\ Scenario1'
       /\ (Scenario1 /\ Joins(ModuleB))
          => call'.ret = <<TRUE, "JOINED", <<>>>> /\ Scenario2'
       /\ (Scenario2 /\ Publishes("NEXT_PASS", [minutes |-> 7]))
          => Scenario3'
       /\ (Scenario3 /\ Publishes("SPACE_WEATHER", [kp |-> 7]))
          => Scenario4'
       /\ (Scenario4 /\ RemoveCalled /\ call'.arg = "B")
          => /\ call'.ret = <<TRUE>>
             /\ Scenario5'
             /\ RecomposeRan'
             /\ ~ModeChangedPublished']_vars

\* The end of the scenario: B has just been removed, kp is still 7, and the
\* recompose after the removal published nothing
C15_Witness ==
    /\ Scenario5
    /\ call = [op |-> "remove_module", arg |-> "B", ret |-> <<TRUE>>]
    /\ RecomposeRan
    /\ ~ModeChangedPublished

-----------------------------------------------------------------------------
(* The schema check *)

MissingTopKey(d) == REQUIRED_TOP_KEYS \ DOMAIN d # {}

\* interfaces is present and has no object under the key
LacksInterface(d, key) == ~MissingTopKey(d) /\ key \notin DOMAIN d["interfaces"]

\* C16 as stated: QUARANTINED_SCHEMA exactly when a required top-level key
\* is absent or interfaces lacks both power and data; every other
\* descriptor, one with only one of the two included, proceeds to the
\* compatibility check.
C16_AsStated ==
    [][JoinCalled =>
        LET d      == call'.arg
            failed == \/ MissingTopKey(d)
                      \/ LacksInterface(d, "power") /\ LacksInterface(d, "data")
        IN  /\ (call'.ret[2] = "QUARANTINED_SCHEMA") <=> failed
            /\ ~failed => call'.compat_checked]_vars

\* C16 (schema check): discover_and_join returns QUARANTINED_SCHEMA exactly
\* when a required top-level key is absent or interfaces lacks power or
\* lacks data; a descriptor whose interfaces holds only one of the two is
\* rejected here, and every descriptor that has both proceeds to the
\* compatibility check.
C16_SchemaCheck ==
    [][JoinCalled =>
        LET d      == call'.arg
            failed == \/ MissingTopKey(d)
                      \/ LacksInterface(d, "power")
                      \/ LacksInterface(d, "data")
        IN  /\ (call'.ret[2] = "QUARANTINED_SCHEMA") <=> failed
            /\ failed => ~call'.compat_checked
            /\ ~failed => call'.compat_checked]_vars

\* A descriptor with every top-level key whose interfaces holds power but
\* no data has just been rejected by the schema check
C16_Witness ==
    /\ call.op = "discover_and_join"
    /\ ~MissingTopKey(call.arg)
    /\ "power" \in DOMAIN call.arg["interfaces"]
    /\ "data" \notin DOMAIN call.arg["interfaces"]
    /\ call.ret[2] = "QUARANTINED_SCHEMA"
    /\ ~call.compat_checked

-----------------------------------------------------------------------------
(* Ownership of the satellite state *)

\* C17: the orchestrator never mutates satellite state.  A command that
\* only publishes to the orchestrator (SPACE_WEATHER, NEXT_PASS, ANOMALY)
\* leaves modules, used_power_w, used_thermal_w, tags_present and
\* quarantine unchanged; when on_module_joined runs after a join, or
\* _recompose after a removal, the registry holds exactly what
\* discover_and_join or remove_module wrote.
C17_OrchestratorReadsOnly ==
    [][/\ call'.op = "publish" =>
            /\ modules' = modules
            /\ used_power_w' = used_power_w
            /\ used_thermal_w' = used_thermal_w
            /\ tags_present' = tags_present
            /\ quarantine' = quarantine
       /\ (JoinCalled /\ RecomposeRan') =>
            LET d == call'.arg
            IN  /\ modules' = Put(modules, d["module_id"], d)
                /\ used_power_w' = used_power_w + MaxW(d)
                /\ used_thermal_w' = used_thermal_w + ThermalW(d)
                /\ tags_present' = tags_present \cup CapTags(d)
                /\ quarantine' = quarantine
       /\ (RemoveCalled /\ RecomposeRan') =>
            /\ modules' = Pop(modules, call'.arg)
            /\ used_power_w' = SumMaxW(modules', DOMAIN modules')
            /\ used_thermal_w' = SumThermalW(modules', DOMAIN modules')
            /\ tags_present' = TagsOver(modules')
            /\ quarantine' = quarantine]_vars

\* The orchestrator changed the mode on SPACE_WEATHER while modules were
\* joined and a descriptor sat in quarantine
C17_Witness ==
    /\ call.op = "publish" /\ call.arg[1] = "SPACE_WEATHER"
    /\ ModeChangedPublished
    /\ modules # EmptyDict
    /\ quarantine # EmptyDict
    /\ used_power_w > 0

-----------------------------------------------------------------------------
(* Quarantine *)

\* C18 (quarantine isolation): a descriptor rejected by the compatibility
\* check leaves modules, used_power_w, used_thermal_w and tags_present
\* unchanged and is stored in quarantine under its module_id in place of
\* whatever was quarantined under that id; the admission decision is a
\* function of the descriptor, the totals and the tags, and the derived
\* mode one of kp_index, next_pass_minutes and the joined modules, so that
\* neither depends on what quarantine holds.
C18_QuarantineIsolation ==
    [][JoinCalled =>
        LET d == call'.arg
        IN  /\ call'.ret[2] = "QUARANTINED_COMPAT" =>
                 /\ modules' = modules
                 /\ used_power_w' = used_power_w
                 /\ used_thermal_w' = used_thermal_w
                 /\ tags_present' = tags_present
                 /\ DOMAIN quarantine' = DOMAIN quarantine \cup {d["module_id"]}
                 /\ quarantine'[d["module_id"]] = d
                 /\ \A id \in DOMAIN quarantine \ {d["module_id"]} :
                      quarantine'[id] = quarantine[id]
            /\ WellFormed(d) =>
                 ((call'.ret[2] = "QUARANTINED_COMPAT") <=> (Violated(d) # {}))
            /\ RecomposeRan' => mode' = FirstMatchingRule']_vars

\* A descriptor has just been rejected by the compatibility check and sits
\* in quarantine under its id, next to a joined module
C18_Witness ==
    /\ call.op = "discover_and_join"
    /\ call.ret[2] = "QUARANTINED_COMPAT"
    /\ call.arg["module_id"] \in DOMAIN quarantine
    /\ quarantine[call.arg["module_id"]] = call.arg
    /\ call.arg["module_id"] \notin DOMAIN modules
    /\ modules # EmptyDict

-----------------------------------------------------------------------------
(* The event bus *)

\* The topic the last command (or the boot) published from the shell, ""
\* if none
CommandTopic ==
    CASE call.op = "boot" -> "LOG"
      [] call.op = "publish" -> call.arg[1]
      [] call.op = "discover_and_join" ->
            IF call.ret[1] THEN "MODULE_JOINED" ELSE "MODULE_QUARANTINED"
      [] call.op = "remove_module" /\ call.ret[1] -> "MODULE_REMOVED"
      [] OTHER -> ""

\* A handler entered by the shell's own publish
IsTopLevel(e) == e.depth = 1 /\ e.topic # ""

TopLevel == SelectSeq(events, IsTopLevel)

\* C19 (synchronous ordered fan-out): the publish of a command enters every
\* subscriber of its topic exactly once, in subscription order, with the
\* published event; every entry of a re-entrant publish is a subscriber of
\* its topic; the command ends with the mode the last MODE_CHANGED
\* announced.  For an accepted module the presentation handler of
\* MODULE_JOINED runs first, the orchestrator's handler after it, and the
\* MODE_CHANGED the join causes is delivered after that, within the same
\* publish.
C19_OrderedFanOut ==
    /\ Len(TopLevel) = Len(Subscribers(CommandTopic))
    /\ \A i \in DOMAIN TopLevel :
         /\ TopLevel[i].topic = CommandTopic
         /\ TopLevel[i].handler = Subscribers(CommandTopic)[i]
    /\ \A i \in DOMAIN events :
         events[i].topic # "" =>
            \E k \in DOMAIN Subscribers(events[i].topic) :
               events[i].handler = Subscribers(events[i].topic)[k]
    /\ \A i \in EntriesOf(events, "MODE_CHANGED") :
         /\ events[i].mode = events[i].event.mode
         /\ (\A j \in EntriesOf(events, "MODE_CHANGED") : j <= i) =>
               mode = events[i].event.mode
    /\ (call.op = "discover_and_join" /\ call.ret[1]) =>
         /\ Len(events) >= 2
         /\ events[1].handler = "print_joined"
         /\ events[1].event = [module_id |-> call.arg["module_id"]]
         /\ events[2].handler = "on_module_joined"
         /\ events[2].event = events[1].event
         /\ \A i \in EntriesOf(events, "MODE_CHANGED") : i > 2

\* A camera has just joined: print_joined, on_module_joined, _recompose and
\* the MODE_CHANGED handler ran, in that order, inside the one publish
C19_Witness ==
    /\ call.op = "discover_and_join"
    /\ call.ret[1]
    /\ Len(events) = 4
    /\ events[1].handler = "print_joined"
    /\ events[2].handler = "on_module_joined"
    /\ events[3].handler = "_recompose"
    /\ events[4].handler = "print_mode"
    /\ events[4].depth = 2
    /\ mode = "IMAGING"

\* The topics the shell publishes itself
ExternalTopics ==
    {"MODULE_JOINED", "MODULE_QUARANTINED", "MODULE_REMOVED",
     "SPACE_WEATHER", "NEXT_PASS", "ANOMALY", "LOG"}

\* C20 (publish cascades terminate): every publish made from the shell
\* returns after a chain of re-entrant publishes at most 3 deep; the
\* handlers of MODE_CHANGED and LOG publish nothing (the entry after one of
\* them is never deeper than it), and the only topics published
\* re-entrantly are MODE_CHANGED and LOG, so there is no publish cycle.
C20_CascadesTerminate ==
    /\ CommandTopic \in ExternalTopics \cup {""}
    /\ \A i \in DOMAIN events :
         /\ events[i].depth >= 1
         /\ events[i].depth <= 3
         /\ events[i].depth > 1 => events[i].topic \in {"MODE_CHANGED", "LOG"}
         /\ events[i].topic \in {"MODE_CHANGED", "LOG"} =>
               \/ i = Len(events)
               \/ events[i + 1].depth <= events[i].depth
         /\ events[i].topic \in ExternalTopics \cup {"MODE_CHANGED", ""}

\* The deepest cascade: ANOMALY entered on_anomaly, which published LOG and
\* MODE_CHANGED one level down, and the publish returned
C20_Witness ==
    /\ CommandTopic = "ANOMALY"
    /\ Len(events) = 3
    /\ events[1].depth = 1
    /\ events[2].topic = "LOG" /\ events[2].depth = 2
    /\ events[3].topic = "MODE_CHANGED" /\ events[3].depth = 2

-----------------------------------------------------------------------------
(* Properties the rules imply for every reachable state of the registry *)

\* C21 (budget cap): with descriptors whose max_w and thermal_w are not
\* negative, after any sequence of discover_and_join and remove_module
\* calls used_power_w is at most power_budget_w and used_thermal_w at most
\* thermal_budget_w.
C21_BudgetCap ==
    /\ used_power_w <= power_budget_w
    /\ used_thermal_w <= thermal_budget_w

\* Both totals stand exactly at their budgets and a further descriptor has
\* just been refused
C21_Witness ==
    /\ used_power_w = power_budget_w
    /\ used_thermal_w = thermal_budget_w
    /\ call.op = "discover_and_join"
    /\ call.ret[2] = "QUARANTINED_COMPAT"

\* C22 (dependency persistence): after any sequence of discover_and_join
\* and remove_module calls, the requires of every joined module is a
\* subset of tags_present.
C22_RequiresMet ==
    \A id \in DOMAIN modules :
        SetOf(Get(modules[id]["constraints"], "requires", <<>>)) \subseteq tags_present

\* C23 (conflict exclusion): after any sequence of discover_and_join and
\* remove_module calls, no joined module's conflicts contains a tag that a
\* different joined module contributes.
C23_NoConflictJoined ==
    \A id \in DOMAIN modules : \A other \in (DOMAIN modules) \ {id} :
        SetOf(Get(modules[id]["constraints"], "conflicts", <<>>))
            \cap CapTags(modules[other]) = {}

=============================================================================
